---- MODULE Spec2Model ----
(***************************************************************************)
(* Model of the leaderboard aggregation backend (src/server.py, the        *)
(* caching variant, with the stateless variant of src/api/index.py where   *)
(* it differs).  Three specifications share this module:                   *)
(*                                                                         *)
(*   Spec          the single-source GET and the refresh POST of           *)
(*                 src/server.py run by concurrent requests against the    *)
(*                 leaderboard_cache collection;                           *)
(*   SpecAll       the aggregate GET of src/server.py, one request at a    *)
(*                 time, against the same collection;                      *)
(*   SpecAdapters  the four source adapters applied to provider responses  *)
(*                 drawn from bounded sets;                                *)
(*   SpecHelpers   mask_username and the end-of-month computation of       *)
(*                 fetch_clash_data applied to names and instants drawn    *)
(*                 from bounded sets.                                      *)
(*                                                                         *)
(* Python dicts are records whose DOMAIN is the set of keys present, JSON  *)
(* lists are sequences, None is the empty sequence, and an ISO-8601 string *)
(* of an instant t is the record [iso |-> t].  Amounts are whole cents, so  *)
(* round(x, 2) leaves them as they are.  The username and avatar fields,   *)
(* which the adapters copy from the provider entry, are not carried in the *)
(* snapshots; mask_username is modelled on its own, on strings that are    *)
(* sequences of characters.                                                *)
(***************************************************************************)
EXTENDS Integers, Sequences, FiniteSets, TLC

VARIABLES
    env,        \* environment at process start: which settings are non-empty
    clock,      \* the current UTC instant, in minutes
    ticks,      \* times the clock has advanced
    cache,      \* db.leaderboard_cache: the set of stored documents
    pc,         \* per request slot: the await the handler is suspended at
    req,        \* per request slot: the route and its site_id argument
    cur,        \* per request slot: site_id of the running get_cached_or_fetch
    now,        \* per request slot: `now` of the running get_cached_or_fetch
    data,       \* per request slot: what the adapter call returned or raised
    results,    \* per request slot: `results` of get_all_leaderboards
    calls,      \* per request slot: adapter calls made by the request so far
    raised,     \* per request slot: sites whose resolution raised (all route)
    nreq,       \* requests accepted so far
    sent,       \* the last HTTP response sent, with the request it answers
    a_site,     \* SpecAdapters: the adapter under test
    a_resp,     \* SpecAdapters: the provider response handed to it
    a_out,      \* SpecAdapters: what the adapter returned or raised
    m_name,     \* SpecHelpers: the username handed to mask_username
    m_visible,  \* SpecHelpers: its visible_chars argument
    m_out,      \* SpecHelpers: what mask_username returned
    t_now,      \* SpecHelpers: `now` of fetch_clash_data
    t_out       \* SpecHelpers: the end_of_month it computed

vars == <<env, clock, ticks, cache, pc, req, cur, now, data, results, calls,
          raised, nreq, sent, a_site, a_resp, a_out,
          m_name, m_visible, m_out, t_now, t_out>>

mainVars == <<env, clock, ticks, cache, pc, req, cur, now, data, results, calls,
              raised, nreq, sent>>

helperVars == <<m_name, m_visible, m_out, t_now, t_out>>

adapterVars == <<a_site, a_resp, a_out, helperVars>>

(***************************************************************************)
(* Bounds of the model.                                                    *)
(***************************************************************************)
MaxEntries == 11    \* longest provider list (one more than the top-10 cut)
MaxShort == 3       \* longest provider list with freely varying entries
MaxWager == 2       \* largest wagered amount a provider reports
MaxRank == 2        \* largest rank Provider B reports
MaxTicks == 1       \* times the clock advances in one run
MaxRequests == 2    \* requests accepted in one run
NumSlots == 2       \* requests in flight at once
MaxName == 11       \* longest username
MaxVisible == 2     \* largest visible_chars

(***************************************************************************)
(* Program constants.                                                      *)
(***************************************************************************)
CACHE_DURATION_MINUTES == 5
TopN == 10

None == <<>>

Sites == <<"clash", "bsite", "csbattle", "skinfans">>

SiteSet == {Sites[i] : i \in 1..Len(Sites)}

Tier(p, a) == [place |-> p, amount |-> a]

API_CONFIG ==
    [clash |->
        [prize_pool |-> 700, currency |-> "gems",
         prizes |-> <<Tier(1, 380), Tier(2, 160), Tier(3, 80), Tier(4, 50),
                      Tier(5, 15), Tier(6, 10), Tier(7, 5)>>],
     bsite |->
        [prize_pool |-> 800, currency |-> "usd",
         prizes |-> <<Tier(1, 400), Tier(2, 200), Tier(3, 100), Tier(4, 50),
                      Tier(5, 30), Tier(6, 15)>>],
     csbattle |->
        [prize_pool |-> 600, currency |-> "coins",
         prizes |-> <<Tier(1, 300), Tier(2, 150), Tier(3, 80), Tier(4, 40),
                      Tier(5, 20), Tier(6, 10)>>],
     skinfans |->
        [prize_pool |-> 500, currency |-> "coins",
         prizes |-> <<Tier(1, 300), Tier(2, 120), Tier(3, 50), Tier(4, 20),
                      Tier(5, 10)>>]]

site_name == [clash |-> "Clash.gg", bsite |-> "B.site",
              csbattle |-> "CSBattle", skinfans |-> "Skin.fans"]

(***************************************************************************)
(* Python helpers.                                                         *)
(***************************************************************************)
\* dict.get(key, default)
Get(d, k, default) == IF k \in DOMAIN d THEN d[k] ELSE default

\* seq[:n]
Take(seq, n) == SubSeq(seq, 1, IF Len(seq) < n THEN Len(seq) ELSE n)

\* datetime.isoformat() and datetime.fromisoformat()
isoformat(t) == [iso |-> t]

fromisoformat(s) == s.iso

\* an instant the model keeps symbolic, as its ISO string
Symbolic(name) == [instant |-> name]

RECURSIVE InsertDesc(_, _, _)
\* x placed after every element of the descending list acc whose key is >= its own
InsertDesc(acc, x, key) ==
    IF acc = <<>> THEN <<x>>
    ELSE IF Get(Head(acc), key, 0) >= Get(x, key, 0)
         THEN <<Head(acc)>> \o InsertDesc(Tail(acc), x, key)
         ELSE <<x>> \o acc

RECURSIVE SortedFrom(_, _, _)
SortedFrom(acc, rest, key) ==
    IF rest = <<>> THEN acc
    ELSE SortedFrom(InsertDesc(acc, Head(rest), key), Tail(rest), key)

\* the list as the provider sent it: the sort left out
sorted_unsorted(xs, key) == xs

\* sorted(xs, key=lambda x: x.get(key, 0), reverse=True): stable, descending
sorted_desc(xs, key) == SortedFrom(<<>>, xs, key)

RECURSIVE TierFrom(_, _, _)
TierFrom(prizes, i, rank) ==
    IF i > Len(prizes) THEN 0
    ELSE IF prizes[i].place = rank THEN prizes[i].amount
    ELSE TierFrom(prizes, i + 1, rank)

\* prize = 0; for p in config["prizes"]: if p["place"] == rank: prize = p["amount"]; break
tier_prize(config, rank) == TierFrom(config.prizes, 1, rank)

(***************************************************************************)
(* Provider responses.  A response either fails in transport (connection   *)
(* error, timeout) or carries a status code and a body; a body is          *)
(* unparsable, a JSON list or a JSON object.                               *)
(***************************************************************************)
BoundedSeq(S, n) == UNION {[1..k -> S] : k \in 0..n}

LongSeq(S) == UNION {[1..k -> S] : k \in TopN..MaxEntries}

TransportFailure(why) == [transport |-> why]

Http(code, body) == [transport |-> "ok", status_code |-> code, body |-> body]

Unparsable == [json |-> "unparsable"]

JsonList(items) == [json |-> "list", items |-> items]

JsonObject(fields) == [json |-> "object", fields |-> fields]

\* failures every provider can show: no connection, timeout, a 500, a body that is not JSON
CommonFailures ==
    {TransportFailure("connect_error"), TransportFailure("timeout"),
     Http(500, JsonObject([error |-> TRUE])), Http(200, Unparsable)}

(***************************************************************************)
(* What an adapter hands back: a snapshot dict, or a raised HTTPException. *)
(***************************************************************************)
Snapshot(site, users, prize_pool, countdown_end, status) ==
    [site_id |-> site, site_name |-> site_name[site], users |-> users,
     prize_pool |-> prize_pool, currency |-> API_CONFIG[site].currency,
     prizes |-> API_CONFIG[site].prizes, countdown_end |-> countdown_end,
     status |-> status]

\* the dict every adapter builds on its non-success paths
StaticSnapshot(site, status, message) ==
    Snapshot(site, <<>>, API_CONFIG[site].prize_pool, None, status)
        @@ [message |-> message]

HTTPException(code, detail) ==
    [exception |-> "HTTPException", status_code |-> code, detail |-> detail]

IsRaise(r) == "exception" \in DOMAIN r

IsSnapshot(r) == "status" \in DOMAIN r /\ "users" \in DOMAIN r

\* str(e) of the exception the httpx call, raise_for_status, json() or the
\* normalisation loop raises on this response
ErrorText(r) ==
    IF r.transport # "ok" THEN r.transport
    ELSE IF r.status_code # 200 THEN "HTTPStatusError"
    ELSE IF r.body.json = "unparsable" THEN "JSONDecodeError"
    ELSE "AttributeError"

(***************************************************************************)
(* Provider A, Clash.gg (src/server.py 117-172).                           *)
(***************************************************************************)
clash_users(items) ==
    LET sorted_users == sorted_desc(items, "wagered")
        top == Take(sorted_users, TopN)
    IN  [i \in 1..Len(top) |->
            [rank |-> i,
             wagered |-> Get(top[i], "wagered", 0),
             prize |-> tier_prize(API_CONFIG.clash, i)]]

fetch_clash_data(r) ==
    IF r.transport # "ok" \/ r.status_code # 200 \/ r.body.json # "list"
    THEN \* except Exception as e: raise HTTPException(status_code=500, ...)
         HTTPException(500, "Failed to fetch Clash.gg data")
    ELSE \* the month-end instant is kept symbolic
         Snapshot("clash", clash_users(r.body.items),
                  API_CONFIG.clash.prize_pool, Symbolic("end_of_month"),
                  "active")

(***************************************************************************)
(* Provider B, B.site (src/server.py 174-258).                             *)
(***************************************************************************)
RECURSIVE LookupFrom(_, _, _, _)
LookupFrom(rewards, i, rank, found) ==
    IF i > Len(rewards) THEN found
    ELSE LookupFrom(rewards, i + 1, rank,
                    IF rewards[i].place = rank THEN rewards[i].winnings
                    ELSE found)

\* prize_lookup = {r["place"]: r["winnings"] ...}; prize_lookup.get(rank, 0)
prize_lookup_get(rewards, rank) == LookupFrom(rewards, 1, rank, 0)

bsite_users(wagers, rewards) ==
    LET top == Take(wagers, TopN)
    IN  [i \in 1..Len(top) |->
            LET rank == Get(top[i], "rank", 0)
            IN  [rank |-> rank,
                 wagered |-> Get(top[i], "wager", 0),
                 prize |-> prize_lookup_get(rewards, rank)]]

\* int(current_entry["end"]) / 1000, then fromtimestamp(...).isoformat()
bsite_countdown_end(current_entry) ==
    IF Get(current_entry, "end", 0) # 0
    THEN isoformat(current_entry.end \div 1000)
    ELSE None

\* the adapter with the status and error tests ahead of the maintenance test
fetch_bsite_data_status_first(r) ==
    IF r.transport # "ok" \/ r.body.json # "object"
    THEN StaticSnapshot("bsite", "error",
             "B.site is temporarily unavailable. Please try again later.")
    ELSE LET d == r.body.fields IN
         IF r.status_code # 200
         THEN HTTPException(r.status_code, "B.site API error")
         ELSE IF Get(d, "error", FALSE)
         THEN HTTPException(500, "B.site API returned an error")
         ELSE IF Get(d, "maintenance", FALSE)
         THEN StaticSnapshot("bsite", "maintenance",
                 Get(d, "msg", "B.site is currently under maintenance. Please check back later."))
         ELSE Snapshot("bsite", <<>>, API_CONFIG.bsite.prize_pool, None, "active")

fetch_bsite_data(r) ==
    IF r.transport # "ok" \/ r.body.json # "object"
    THEN \* except Exception: the fixed generic message
         StaticSnapshot("bsite", "error",
             "B.site is temporarily unavailable. Please try again later.")
    ELSE LET d == r.body.fields IN
         IF Get(d, "maintenance", FALSE)
         THEN StaticSnapshot("bsite", "maintenance",
                 Get(d, "msg", "B.site is currently under maintenance. Please check back later."))
         ELSE IF r.status_code # 200
         THEN HTTPException(r.status_code, "B.site API error")
         ELSE IF Get(d, "error", FALSE)
         THEN HTTPException(500, "B.site API returned an error")
         ELSE LET leaderboard == Get(d, "leaderboard", <<>>)
                  current_entry == Get(d, "currentEntry", <<>>)
              IN  Snapshot("bsite",
                      bsite_users(Get(d, "wagers", <<>>),
                                  Get(leaderboard, "leaderboardRewards", <<>>)),
                      Get(Get(leaderboard, "config", <<>>), "value",
                          API_CONFIG.bsite.prize_pool),
                      bsite_countdown_end(current_entry),
                      Get(current_entry, "status", "active"))

(***************************************************************************)
(* Provider C, CSBattle (src/server.py 260-340).                           *)
(***************************************************************************)
csbattle_users(items) ==
    LET sorted_users == sorted_desc(items, "wager")
        top == Take(sorted_users, TopN)
    IN  [i \in 1..Len(top) |->
            [rank |-> i,
             wagered |-> Get(top[i], "wager", 0),
             prize |-> tier_prize(API_CONFIG.csbattle, i)]]

fetch_csbattle_data(configured, r) ==
    IF ~configured
    THEN StaticSnapshot("csbattle", "not_configured", "CSBattle API not configured.")
    ELSE IF r.transport # "ok" \/ r.status_code # 200 \/ r.body.json = "unparsable"
    THEN StaticSnapshot("csbattle", "error", ErrorText(r))
    ELSE IF r.body.json = "object" /\ "users" \notin DOMAIN r.body.fields
    THEN \* users_data is the dict itself: sorted() walks its keys, str has no .get
         StaticSnapshot("csbattle", "error", ErrorText(r))
    ELSE LET users_data == IF r.body.json = "object" THEN r.body.fields.users
                           ELSE r.body.items
         IN  \* countdown_end is the configured public end date
             Snapshot("csbattle", csbattle_users(users_data),
                      API_CONFIG.csbattle.prize_pool, Symbolic("end_date"),
                      "active")

(***************************************************************************)
(* Provider D, Skin.fans (src/server.py 342-419).                          *)
(***************************************************************************)
RECURSIVE SkinfansFrom(_, _)
\* for i, place in enumerate(places[:10]): if user_data: users.append(rank = i + 1)
SkinfansFrom(top, i) ==
    IF i > Len(top) THEN <<>>
    ELSE LET user_data == Get(top[i], "user", <<>>)
             rest == SkinfansFrom(top, i + 1)
         IN  IF DOMAIN user_data # {}
             THEN <<[rank |-> i,
                     wagered |-> Get(user_data, "wagered", 0),
                     prize |-> Get(top[i], "payout", 0)]>> \o rest
             ELSE rest

skinfans_users(places) == SkinfansFrom(Take(places, TopN), 1)

fetch_skinfans_data(configured, r) ==
    IF ~configured
    THEN StaticSnapshot("skinfans", "not_configured", "Skin.fans API not configured.")
    ELSE IF r.transport # "ok" \/ r.status_code # 200 \/ r.body.json # "object"
    THEN StaticSnapshot("skinfans", "error", ErrorText(r))
    ELSE LET d == r.body.fields
             response_data == Get(Get(d, "response", <<>>), "data", d)
             race == Get(response_data, "race", <<>>)
             ends_at == Get(race, "ends_at", 0)
         IN  Snapshot("skinfans",
                      skinfans_users(Get(race, "places", <<>>)),
                      Get(race, "payout", API_CONFIG.skinfans.prize_pool),
                      IF ends_at # 0 THEN isoformat(ends_at) ELSE None,
                      IF Get(race, "active", FALSE) THEN "active" ELSE "ended")

\* fetch_functions[site_id]() under the process environment e
fetch(e, site, r) ==
    CASE site = "clash" -> fetch_clash_data(r)
      [] site = "bsite" -> fetch_bsite_data(r)
      [] site = "csbattle" -> fetch_csbattle_data(e.CSBATTLE_AFFILIATE_ID, r)
      [] site = "skinfans" -> fetch_skinfans_data(e.SKINFANS_TOKEN, r)

(***************************************************************************)
(* The responses the providers are taken to give.  `lists` is the set of   *)
(* entry lists a success body may carry.                                   *)
(***************************************************************************)
ErrorObject == Http(200, JsonObject([error |-> TRUE]))

ClashEntry == {<<>>} \cup {[wagered |-> w] : w \in 1..MaxWager}

ClashLong == {[wagered |-> 1], [wagered |-> MaxWager]}

ClashResponses(lists) ==
    CommonFailures \cup {ErrorObject} \cup {Http(200, JsonList(xs)) : xs \in lists}

BsiteEntry ==
    {<<>>, [wager |-> MaxWager]}
    \cup {[rank |-> k] : k \in 1..MaxRank}
    \cup {[rank |-> k, wager |-> MaxWager] : k \in 1..MaxRank}

BsiteLong == {[rank |-> 1, wager |-> 1], [rank |-> MaxRank, wager |-> 1]}

\* bodies that exercise the flags, the reward map, the pool override and currentEntry
BsiteSpecial ==
    {Http(code, JsonObject(f)) :
        code \in {200, 500},
        f \in {[maintenance |-> TRUE],
               [maintenance |-> TRUE, msg |-> "back soon", error |-> TRUE],
               [maintenance |-> FALSE, error |-> TRUE]}}
    \cup
    {Http(200, JsonObject(f)) :
        f \in {[wagers |-> <<[rank |-> 1, wager |-> 1]>>,
                leaderboard |-> [leaderboardRewards |->
                                    <<[place |-> 1, winnings |-> 7]>>,
                                 config |-> [value |-> 900]],
                currentEntry |-> [status |-> "ended", end |-> 60000]],
               [wagers |-> <<[rank |-> 1, wager |-> 1]>>,
                currentEntry |-> [status |-> "paused"]]}}

BsiteResponses(lists) ==
    CommonFailures \cup BsiteSpecial
    \cup {Http(200, JsonObject([wagers |-> xs])) : xs \in lists}

CsbattleEntry == {<<>>} \cup {[wager |-> w] : w \in 1..MaxWager}

CsbattleLong == {[wager |-> 1], [wager |-> MaxWager]}

CsbattleResponses(lists) ==
    CommonFailures \cup {ErrorObject}
    \cup {Http(200, JsonList(xs)) : xs \in lists}
    \cup {Http(200, JsonObject([users |-> xs])) : xs \in lists}

SkinfansEntry ==
    {<<>>, [user |-> <<>>], [payout |-> 3, user |-> <<>>]}
    \cup {[user |-> [wagered |-> w]] : w \in 1..MaxWager}
    \cup {[payout |-> 3, user |-> [wagered |-> w]] : w \in 1..MaxWager}

SkinfansLong == {[payout |-> 3], [payout |-> 3, user |-> [wagered |-> 1]]}

SkinfansResponses(lists) ==
    CommonFailures \cup {ErrorObject}
    \cup {Http(200, JsonObject([race |-> [places |-> xs, active |-> TRUE]])) :
            xs \in lists}
    \cup {Http(200, JsonObject([response |-> [data |-> [race |->
                [places |-> xs, payout |-> 450, ends_at |-> 90]]]])) :
            xs \in lists}

Responses(site, short, long) ==
    CASE site = "clash" ->
            ClashResponses(BoundedSeq(ClashEntry, short) \cup
                           (IF long THEN LongSeq(ClashLong) ELSE {}))
      [] site = "bsite" ->
            BsiteResponses(BoundedSeq(BsiteEntry, short) \cup
                           (IF long THEN LongSeq(BsiteLong) ELSE {}))
      [] site = "csbattle" ->
            CsbattleResponses(BoundedSeq(CsbattleEntry, short) \cup
                              (IF long THEN LongSeq(CsbattleLong) ELSE {}))
      [] site = "skinfans" ->
            SkinfansResponses(BoundedSeq(SkinfansEntry, short) \cup
                              (IF long THEN LongSeq(SkinfansLong) ELSE {}))

\* os.environ at start: TRUE where the setting is a non-empty string
Env(mongo, affiliate, token) ==
    [MONGO_URL |-> mongo, CSBATTLE_AFFILIATE_ID |-> affiliate,
     SKINFANS_TOKEN |-> token]

(***************************************************************************)
(* The responses the providers give while requests are served: a transport *)
(* failure, the provider's error object, Provider B's maintenance body,    *)
(* and one success body.                                                   *)
(***************************************************************************)
LiveResponses(site) ==
    CASE site = "clash" ->
            {TransportFailure("timeout"),
             Http(200, JsonList(<<[wagered |-> MaxWager]>>))}
      [] site = "bsite" ->
            {ErrorObject,
             Http(200, JsonObject([maintenance |-> TRUE])),
             Http(200, JsonObject([wagers |-> <<[rank |-> 1, wager |-> MaxWager]>>]))}
      [] site = "csbattle" ->
            {TransportFailure("timeout"),
             Http(200, JsonList(<<[wager |-> MaxWager]>>))}
      [] site = "skinfans" ->
            {TransportFailure("timeout"),
             Http(200, JsonObject([race |->
                [places |-> <<[user |-> [wagered |-> MaxWager]]>>,
                 active |-> TRUE]]))}

(***************************************************************************)
(* db.leaderboard_cache, a collection of documents                         *)
(* {site_id, data, last_updated}.  Each driver call is atomic.             *)
(***************************************************************************)
Matching(coll, site) == {d \in coll : d.site_id = site}

\* find_one({"site_id": site_id}): a matching document, or None
find_one(coll, site) ==
    IF Matching(coll, site) = {} THEN None
    ELSE CHOOSE d \in Matching(coll, site) : TRUE

\* insert_one(doc) in place of the upsert
update_one_insert(coll, site, doc) == coll \cup {doc}

\* the upsert applied to active snapshots only
update_one_active_only(coll, site, doc) ==
    IF doc.data.status = "active"
    THEN (coll \ Matching(coll, site)) \cup {doc}
    ELSE coll

\* update_one({"site_id": site_id}, {"$set": doc}, upsert=True)
update_one(coll, site, doc) ==
    IF Matching(coll, site) = {} THEN coll \cup {doc}
    ELSE (coll \ {find_one(coll, site)}) \cup {doc}

\* delete_one({"site_id": site_id})
delete_one(coll, site) ==
    IF Matching(coll, site) = {} THEN coll
    ELSE coll \ {find_one(coll, site)}

(***************************************************************************)
(* get_cached_or_fetch and the routes (src/server.py 421-515), cut at      *)
(* their awaits.                                                           *)
(***************************************************************************)
\* last_updated and (now - last_updated) < timedelta(minutes=CACHE_DURATION_MINUTES)
is_fresh(t, last_updated) == t - last_updated < CACHE_DURATION_MINUTES

\* the hit restamped with the request's own instant
cached_data_restamped(cached, t) ==
    [k \in DOMAIN cached.data \cup {"last_updated"} |->
        IF k = "last_updated" THEN isoformat(t) ELSE cached.data[k]]

\* data = cached.get("data", {}); data["last_updated"] = last_updated.isoformat()
cached_data(cached, t) ==
    [k \in DOMAIN cached.data \cup {"last_updated"} |->
        IF k = "last_updated"
        THEN isoformat(fromisoformat(cached.last_updated))
        ELSE cached.data[k]]

\* data["last_updated"] = now.isoformat()
stamped(d, t) ==
    [k \in DOMAIN d \cup {"last_updated"} |->
        IF k = "last_updated" THEN isoformat(t) ELSE d[k]]

\* the document stamped with the instant of the write
cache_doc_at_write(site, d, t) ==
    [site_id |-> site, data |-> d, last_updated |-> isoformat(clock)]

\* the document update_one sets
cache_doc(site, d, t) ==
    [site_id |-> site, data |-> d, last_updated |-> isoformat(t)]

valid_sites == Sites

\* the route's own check left out, get_cached_or_fetch's relied on
is_valid_site_any(site_id) == TRUE

\* site_id in valid_sites
is_valid_site(site_id) == \E i \in 1..Len(valid_sites) : valid_sites[i] = site_id

\* raise HTTPException(status_code=404, detail=f"Invalid site. Valid sites: ...")
InvalidSite ==
    [status_code |-> 404,
     detail |-> [text |-> "Invalid site. Valid sites:", sites |-> valid_sites]]

\* FastAPI's answer to an HTTPException leaving a handler
ErrorResponse(exc) == [status_code |-> exc.status_code, detail |-> exc.detail]

Ok(body) == [status_code |-> 200, body |-> body]

\* an except clause that lets HTTPException through
all_catches_narrow(exc) == exc.exception # "HTTPException"

\* except Exception as e: HTTPException is an Exception
all_catches(exc) == TRUE

\* results[site_id] = {"site_id": site_id, "error": str(e), "status": "error"}
error_record(site, exc) ==
    [site_id |-> site, error |-> exc.detail, status |-> "error"]

SiteIds == SiteSet \cup {"other"}

NotCalled == [called |-> FALSE]

Slots == 1..NumSlots

NoRequest == [route |-> "none"]

NoResponse ==
    [req |-> NoRequest, now |-> 0, calls |-> 0, raised |-> {},
     overwrote |-> FALSE, replaced |-> {}, response |-> <<>>]

\* the last response has reached its client
Quiet == sent = NoResponse

\* a request is accepted into the lowest free slot
Free(p) ==
    /\ Quiet
    /\ pc[p] = "idle"
    /\ \A q \in Slots : q < p => pc[q] # "idle"
    /\ nreq < MaxRequests

\* the response leaves, with what the request did; the handler's locals are gone
Send(p, response, ncalls, failed) ==
    /\ sent' = [req |-> req[p], now |-> now[p], calls |-> ncalls,
                raised |-> failed,
                \* UpdateResult.matched_count of the write that ends the request
                overwrote |-> (pc[p] = "write" /\ Matching(cache, cur[p]) # {}),
                \* last_updated of the record that write replaced
                replaced |-> IF pc[p] = "write"
                             THEN {d.last_updated : d \in Matching(cache, cur[p])}
                             ELSE {},
                response |-> response]
    /\ pc' = [pc EXCEPT ![p] = "idle"]
    /\ req' = [req EXCEPT ![p] = NoRequest]
    /\ cur' = [cur EXCEPT ![p] = ""]
    /\ now' = [now EXCEPT ![p] = 0]
    /\ data' = [data EXCEPT ![p] = NotCalled]
    /\ results' = [results EXCEPT ![p] = <<>>]
    /\ calls' = [calls EXCEPT ![p] = 0]
    /\ raised' = [raised EXCEPT ![p] = {}]

\* get_cached_or_fetch(site) is entered: now is read, then find_one is awaited
\* (or, without a database, the adapter)
Enter(p, site) ==
    /\ cur' = [cur EXCEPT ![p] = site]
    /\ now' = [now EXCEPT ![p] = clock]
    /\ pc' = [pc EXCEPT ![p] = IF env.MONGO_URL THEN "find" ELSE "fetch"]

\* get_cached_or_fetch hands `out` (a dict, or a raised exception) to its route,
\* having made ncalls adapter calls for the request so far
Leave(p, out, ncalls) ==
    CASE req[p].route = "get" ->
            Send(p, IF IsRaise(out) THEN ErrorResponse(out) ELSE Ok(out),
                 ncalls, {})
      [] req[p].route = "refresh" ->
            Send(p, IF IsRaise(out) THEN ErrorResponse(out)
                    ELSE Ok([message |-> "Refreshed", data |-> out]),
                 ncalls, {})
      [] req[p].route = "all" ->
            IF IsRaise(out) /\ ~all_catches(out)
            THEN Send(p, ErrorResponse(out), ncalls, raised[p])
            ELSE LET entry == IF IsRaise(out) THEN error_record(cur[p], out)
                              ELSE out
                     res == [s \in DOMAIN results[p] \cup {cur[p]} |->
                                IF s = cur[p] THEN entry ELSE results[p][s]]
                     failed == IF IsRaise(out) THEN raised[p] \cup {cur[p]}
                               ELSE raised[p]
                     i == CHOOSE k \in 1..Len(Sites) : Sites[k] = cur[p]
                 IN  IF i < Len(Sites)
                     THEN /\ results' = [results EXCEPT ![p] = res]
                          /\ raised' = [raised EXCEPT ![p] = failed]
                          /\ calls' = [calls EXCEPT ![p] = ncalls]
                          /\ data' = [data EXCEPT ![p] = NotCalled]
                          /\ Enter(p, Sites[i + 1])
                          /\ UNCHANGED <<req, sent>>
                     ELSE Send(p, Ok(res), ncalls, failed)

\* GET /api/leaderboard/{site_id}
get_leaderboard(p, site_id) ==
    /\ Free(p)
    /\ nreq' = nreq + 1
    /\ IF ~is_valid_site(site_id)
       THEN /\ sent' = [req |-> [route |-> "get", site_id |-> site_id],
                        now |-> 0, calls |-> 0, raised |-> {},
                        overwrote |-> FALSE, replaced |-> {}, response |-> InvalidSite]
            /\ UNCHANGED <<pc, req, cur, now>>
       ELSE /\ req' = [req EXCEPT ![p] = [route |-> "get", site_id |-> site_id]]
            /\ Enter(p, site_id)
            /\ UNCHANGED sent
    /\ UNCHANGED <<env, clock, ticks, cache, data, results, calls, raised, adapterVars>>

\* GET /api/leaderboards
get_all_leaderboards(p) ==
    /\ Free(p)
    /\ nreq' = nreq + 1
    /\ req' = [req EXCEPT ![p] = [route |-> "all"]]
    /\ Enter(p, Sites[1])
    /\ UNCHANGED <<env, clock, ticks, cache, data, results, calls, raised, sent,
                   adapterVars>>

\* POST /api/leaderboard/refresh/{site_id}
refresh_leaderboard(p, site_id) ==
    /\ Free(p)
    /\ nreq' = nreq + 1
    /\ IF ~is_valid_site(site_id)
       THEN /\ sent' = [req |-> [route |-> "refresh", site_id |-> site_id],
                        now |-> 0, calls |-> 0, raised |-> {},
                        overwrote |-> FALSE, replaced |-> {}, response |-> InvalidSite]
            /\ UNCHANGED <<pc, req, cur, now>>
       ELSE /\ req' = [req EXCEPT ![p] = [route |-> "refresh", site_id |-> site_id]]
            /\ IF env.MONGO_URL
               THEN /\ pc' = [pc EXCEPT ![p] = "delete"]
                    /\ cur' = [cur EXCEPT ![p] = site_id]
                    /\ UNCHANGED now
               ELSE Enter(p, site_id)
            /\ UNCHANGED sent
    /\ UNCHANGED <<env, clock, ticks, cache, data, results, calls, raised, adapterVars>>

\* await db.leaderboard_cache.delete_one(...), then get_cached_or_fetch is entered
Delete(p) ==
    /\ Quiet
    /\ pc[p] = "delete"
    /\ cache' = delete_one(cache, cur[p])
    /\ Enter(p, cur[p])
    /\ UNCHANGED <<env, clock, ticks, req, data, results, calls, raised, nreq, sent,
                   adapterVars>>

\* await db.leaderboard_cache.find_one(...) and the freshness test
Find(p) ==
    /\ Quiet
    /\ pc[p] = "find"
    /\ LET cached == find_one(cache, cur[p]) IN
       IF cached # None /\ is_fresh(now[p], fromisoformat(cached.last_updated))
       THEN Leave(p, cached_data(cached, now[p]), calls[p])
       ELSE /\ pc' = [pc EXCEPT ![p] = "fetch"]
            /\ UNCHANGED <<req, cur, now, data, results, calls, raised, sent>>
    /\ UNCHANGED <<env, clock, ticks, cache, nreq, adapterVars>>

\* the adapter call with a failure written to the cache as an error snapshot
Fetch_caching_failure(p) ==
    /\ Quiet
    /\ pc[p] = "fetch"
    /\ \E r \in LiveResponses(cur[p]) :
        LET out == fetch(env, cur[p], r) IN
        IF IsRaise(out)
        THEN /\ cache' = IF env.MONGO_URL
                         THEN update_one(cache, cur[p],
                                cache_doc(cur[p],
                                    StaticSnapshot(cur[p], "error", out.detail),
                                    now[p]))
                         ELSE cache
             /\ Leave(p, out, calls[p] + 1)
        ELSE /\ cache' = cache
             /\ IF env.MONGO_URL
                THEN /\ data' = [data EXCEPT ![p] = stamped(out, now[p])]
                     /\ calls' = [calls EXCEPT ![p] = @ + 1]
                     /\ pc' = [pc EXCEPT ![p] = "write"]
                     /\ UNCHANGED <<req, cur, now, results, raised, sent>>
                ELSE Leave(p, stamped(out, now[p]), calls[p] + 1)
    /\ UNCHANGED <<env, clock, ticks, nreq, adapterVars>>

\* data = await fetch_functions[site_id](); data["last_updated"] = now.isoformat()
Fetch(p) ==
    /\ Quiet
    /\ pc[p] = "fetch"
    /\ IF cur[p] \notin SiteSet
       THEN \* if site_id not in fetch_functions: raise HTTPException(404, ...)
            Leave(p, HTTPException(404, "Unknown site"), calls[p])
       ELSE \E r \in LiveResponses(cur[p]) :
            LET out == fetch(env, cur[p], r) IN
            IF IsRaise(out)
            THEN Leave(p, out, calls[p] + 1)
            ELSE IF env.MONGO_URL
            THEN /\ data' = [data EXCEPT ![p] = stamped(out, now[p])]
                 /\ calls' = [calls EXCEPT ![p] = @ + 1]
                 /\ pc' = [pc EXCEPT ![p] = "write"]
                 /\ UNCHANGED <<req, cur, now, results, raised, sent>>
            ELSE Leave(p, stamped(out, now[p]), calls[p] + 1)
    /\ UNCHANGED <<env, clock, ticks, cache, nreq, adapterVars>>

\* await db.leaderboard_cache.update_one(..., upsert=True); return data
Write(p) ==
    /\ Quiet
    /\ pc[p] = "write"
    /\ cache' = update_one(cache, cur[p], cache_doc(cur[p], data[p], now[p]))
    /\ Leave(p, data[p], calls[p])
    /\ UNCHANGED <<env, clock, ticks, nreq, adapterVars>>

\* time passes: a minute, the freshness window, or a minute less than it
Tick ==
    /\ Quiet
    /\ ticks < MaxTicks
    /\ ticks' = ticks + 1
    /\ \E d \in {1, CACHE_DURATION_MINUTES - 1, CACHE_DURATION_MINUTES} :
            clock' = clock + d
    /\ UNCHANGED <<env, cache, pc, req, cur, now, data, results, calls,
                   raised, nreq, sent, adapterVars>>

\* the client takes the response off the wire
Receive ==
    /\ ~Quiet
    /\ sent' = NoResponse
    /\ UNCHANGED <<env, clock, ticks, cache, pc, req, cur, now, data, results,
                   calls, raised, nreq, adapterVars>>

(***************************************************************************)
(* Helper functions: mask_username and the end of the month.               *)
(***************************************************************************)
\* a str value, as the sequence of its characters
PyStr(chars) == [str |-> chars]

\* a JSON value that is no str (null, a number): it has no encode method
NonStr == [null |-> TRUE]

\* a lone surrogate, which json.loads accepts and UTF-8 cannot encode
Surrogate == "\\ud800"

Chars == {"a", "b", "*", Surrogate}

\* "Unknown"
Unknown == PyStr(<<"U", "n", "k", "n", "o", "w", "n">>)

\* username.encode('utf-8', errors='replace').decode('utf-8'); except: "Unknown"
sanitize_username(username) ==
    IF "str" \in DOMAIN username
    THEN PyStr([i \in 1..Len(username.str) |->
                  IF username.str[i] = Surrogate THEN "?" ELSE username.str[i]])
    ELSE Unknown

\* "*" * n
Stars(n) == [i \in 1..n |-> "*"]

\* the mask with one asterisk for every remaining character
mask_username_uncapped(username, visible_chars) ==
    LET u == sanitize_username(username).str IN
    IF Len(u) <= visible_chars THEN PyStr(u)
    ELSE PyStr(SubSeq(u, 1, visible_chars) \o Stars(Len(u) - visible_chars))

\* username[:visible_chars] + "*" * min(len(username) - visible_chars, 8)
mask_username(username, visible_chars) ==
    LET u == sanitize_username(username).str
        rest == Len(u) - visible_chars
    IN  IF Len(u) <= visible_chars THEN PyStr(u)
        ELSE PyStr(SubSeq(u, 1, visible_chars)
                   \o Stars(IF rest < 8 THEN rest ELSE 8))

\* usernames: every short string, and the short strings padded to every length
Padded(prefix, n) == prefix \o [i \in 1..(n - Len(prefix)) |-> "a"]

Names ==
    {PyStr(Padded(prefix, n)) :
        prefix \in BoundedSeq(Chars, MaxShort), n \in 0..MaxName}
    \cup {NonStr}

\* datetime: a UTC instant, to the second
LastSecond == 86399

IsLeap(y) == (y % 4 = 0 /\ y % 100 # 0) \/ y % 400 = 0

DaysInMonth(y, m) ==
    IF m = 2 THEN (IF IsLeap(y) THEN 29 ELSE 28)
    ELSE IF m \in {4, 6, 9, 11} THEN 30 ELSE 31

\* now.replace(year=y, month=m, day=1): the time of day is kept
replace_to_first(t, y, m) == [t EXCEPT !.year = y, !.month = m, !.day = 1]

\* t - timedelta(seconds=1)
minus_one_second(t) ==
    IF t.second > 0 THEN [t EXCEPT !.second = @ - 1]
    ELSE IF t.day > 1 THEN [t EXCEPT !.day = @ - 1, !.second = LastSecond]
    ELSE IF t.month > 1
         THEN [t EXCEPT !.month = @ - 1,
                        !.day = DaysInMonth(t.year, t.month - 1),
                        !.second = LastSecond]
         ELSE [year |-> t.year - 1, month |-> 12, day |-> 31,
               second |-> LastSecond]

\* if now.month == 12: ... else: ...   (fetch_clash_data's end_of_month, the
\* instant that Symbolic("end_of_month") stands for in its snapshot)
end_of_month(t) ==
    IF t.month = 12
    THEN minus_one_second(replace_to_first(t, t.year + 1, 1))
    ELSE minus_one_second(replace_to_first(t, t.year, t.month + 1))

\* datetime.now(timezone.utc): a common and a leap year, every month, the
\* first, a middle and the last days, midnight, noon and the last second
Instants ==
    {[year |-> y, month |-> m, day |-> d, second |-> sec] :
        y \in {2023, 2024}, m \in 1..12, d \in {1, 15, 28, 29, 30, 31},
        sec \in {0, 1, 43200, LastSecond}}

ValidInstants == {t \in Instants : t.day <= DaysInMonth(t.year, t.month)}

IdleHelpers ==
    /\ m_name = PyStr(<<>>)
    /\ m_visible = 0
    /\ m_out = NotCalled
    /\ t_now = [year |-> 2023, month |-> 1, day |-> 1, second |-> 0]
    /\ t_out = NotCalled

IdleMain ==
    /\ clock = 0
    /\ ticks = 0
    /\ cache = {}
    /\ pc = [p \in Slots |-> "idle"]
    /\ req = [p \in Slots |-> NoRequest]
    /\ cur = [p \in Slots |-> ""]
    /\ now = [p \in Slots |-> 0]
    /\ data = [p \in Slots |-> NotCalled]
    /\ results = [p \in Slots |-> <<>>]
    /\ calls = [p \in Slots |-> 0]
    /\ raised = [p \in Slots |-> {}]
    /\ nreq = 0
    /\ sent = NoResponse

\* the process starts with an empty collection, with or without MONGO_URL and
\* the two provider credentials that can be blank
Init ==
    /\ IdleMain
    /\ env \in {Env(TRUE, TRUE, TRUE), Env(FALSE, TRUE, TRUE),
                Env(TRUE, FALSE, FALSE)}
    /\ a_site = "clash"
    /\ a_resp = TransportFailure("timeout")
    /\ a_out = NotCalled
    /\ IdleHelpers

\* the single-source routes, served concurrently
Next ==
    \/ \E p \in Slots, s \in SiteIds : get_leaderboard(p, s)
    \/ \E p \in Slots, s \in SiteIds : refresh_leaderboard(p, s)
    \/ \E p \in Slots : Delete(p)
    \/ \E p \in Slots : Find(p)
    \/ \E p \in Slots : Fetch(p)
    \/ \E p \in Slots : Write(p)
    \/ Tick
    \/ Receive

Spec == Init /\ [][Next]_vars

\* the aggregate route, its requests served one after another
NextAll ==
    \/ get_all_leaderboards(1)
    \/ Find(1)
    \/ Fetch(1)
    \/ Write(1)
    \/ Tick
    \/ Receive

SpecAll == Init /\ [][NextAll]_vars

(***************************************************************************)
(* SpecAdapters: one adapter call on one provider response.                *)
(***************************************************************************)
InitAdapters ==
    /\ IdleMain
    /\ a_site \in SiteSet
    /\ env \in {Env(TRUE, a, t) :
                    a \in IF a_site = "csbattle" THEN BOOLEAN ELSE {TRUE},
                    t \in IF a_site = "skinfans" THEN BOOLEAN ELSE {TRUE}}
    /\ a_resp \in Responses(a_site, MaxShort, TRUE)
    /\ a_out = NotCalled
    /\ IdleHelpers

CallClash ==
    /\ a_site = "clash" /\ a_out = NotCalled
    /\ a_out' = fetch_clash_data(a_resp)
    /\ UNCHANGED <<mainVars, a_site, a_resp, helperVars>>

CallBsite ==
    /\ a_site = "bsite" /\ a_out = NotCalled
    /\ a_out' = fetch_bsite_data(a_resp)
    /\ UNCHANGED <<mainVars, a_site, a_resp, helperVars>>

CallCsbattle ==
    /\ a_site = "csbattle" /\ a_out = NotCalled
    /\ a_out' = fetch_csbattle_data(env.CSBATTLE_AFFILIATE_ID, a_resp)
    /\ UNCHANGED <<mainVars, a_site, a_resp, helperVars>>

CallSkinfans ==
    /\ a_site = "skinfans" /\ a_out = NotCalled
    /\ a_out' = fetch_skinfans_data(env.SKINFANS_TOKEN, a_resp)
    /\ UNCHANGED <<mainVars, a_site, a_resp, helperVars>>

NextAdapters == CallClash \/ CallBsite \/ CallCsbattle \/ CallSkinfans

SpecAdapters == InitAdapters /\ [][NextAdapters]_vars

(***************************************************************************)
(* SpecHelpers: one call of mask_username, or one end_of_month.            *)
(***************************************************************************)
InitHelpers ==
    /\ IdleMain
    /\ env = Env(TRUE, TRUE, TRUE)
    /\ a_site = "clash"
    /\ a_resp = TransportFailure("timeout")
    /\ a_out = NotCalled
    /\ m_out = NotCalled
    /\ t_out = NotCalled
    /\ \/ /\ m_name \in Names
          /\ m_visible \in 0..MaxVisible
          /\ t_now = [year |-> 2023, month |-> 1, day |-> 1, second |-> 0]
       \/ /\ m_name = PyStr(<<>>)
          /\ m_visible = 0
          /\ t_now \in ValidInstants

CallMask ==
    /\ m_out = NotCalled /\ t_out = NotCalled
    /\ m_out' = mask_username(m_name, m_visible)
    /\ UNCHANGED <<mainVars, a_site, a_resp, a_out, m_name, m_visible,
                   t_now, t_out>>

CallEndOfMonth ==
    /\ m_out = NotCalled /\ t_out = NotCalled
    /\ t_out' = end_of_month(t_now)
    /\ UNCHANGED <<mainVars, a_site, a_resp, a_out, m_name, m_visible,
                   m_out, t_now>>

NextHelpers == CallMask \/ CallEndOfMonth

SpecHelpers == InitHelpers /\ [][NextHelpers]_vars

(***************************************************************************)
(* Claims about the adapters, checked under SpecAdapters.                  *)
(***************************************************************************)
Min(a, b) == IF a < b THEN a ELSE b

\* the list a_resp carries under `field` when the adapter reads one, else <<>>
RawClashItems == IF a_resp.transport = "ok" /\ a_resp.status_code = 200
                    /\ a_resp.body.json = "list"
                 THEN a_resp.body.items ELSE <<>>

RawSkinfansPlaces ==
    IF a_resp.transport = "ok" /\ a_resp.status_code = 200
       /\ a_resp.body.json = "object"
    THEN LET d == a_resp.body.fields
             race == IF "response" \in DOMAIN d THEN d.response.data.race
                     ELSE IF "race" \in DOMAIN d THEN d.race ELSE <<>>
         IN  IF "places" \in DOMAIN race THEN race.places ELSE <<>>
    ELSE <<>>

\* C8: every snapshot an adapter produces has at most 10 users, and their
\* ranks are strictly increasing in list order (hence pairwise distinct).
C8_RanksIncreasing ==
    IsSnapshot(a_out) =>
        /\ Len(a_out.users) <= 10
        /\ \A i, j \in 1..Len(a_out.users) :
                i < j => a_out.users[i].rank < a_out.users[j].rank

\* C9: Provider D skips a place without a user object and the skipped place
\* takes no rank: the k emitted users carry the ranks 1..k, k being the number
\* of places among the first ten that have a user.
C9_SkinfansContiguous ==
    (a_site = "skinfans" /\ IsSnapshot(a_out) /\ a_out.status # "error"
        /\ a_out.status # "not_configured") =>
        LET places == RawSkinfansPlaces
            emitted == {i \in 1..Min(Len(places), 10) :
                            "user" \in DOMAIN places[i]
                            /\ DOMAIN places[i].user # {}}
        IN  /\ Len(a_out.users) = Cardinality(emitted)
            /\ \A i \in 1..Len(a_out.users) : a_out.users[i].rank = i

\* C10: Provider A, on success with N raw entries, returns min(N, 10) users in
\* descending order of wagered, holding the largest wagered amounts of the N,
\* the i-th with rank i and with the prize of the tier whose place is i (0
\* past the configured tiers), and status "active".
C10_ClashTopTen ==
    (a_site = "clash" /\ IsSnapshot(a_out)) =>
        LET items == RawClashItems
            users == a_out.users
            W(i) == IF "wagered" \in DOMAIN items[i] THEN items[i].wagered ELSE 0
            tiers == API_CONFIG.clash.prizes
        IN  /\ a_out.status = "active"
            /\ Len(users) = Min(Len(items), 10)
            /\ \A i \in 1..Len(users) :
                /\ users[i].rank = i
                /\ \/ \E t \in 1..Len(tiers) :
                        tiers[t].place = i /\ users[i].prize = tiers[t].amount
                   \/ i > 7 /\ users[i].prize = 0
            /\ \A i, j \in 1..Len(users) :
                i < j => users[i].wagered >= users[j].wagered
            /\ \A v \in 0..MaxWager :
                Cardinality({i \in 1..Len(users) : users[i].wagered >= v})
                    = Min(10, Cardinality({i \in 1..Len(items) : W(i) >= v}))

\* eleven entries, not all alike, cut to ten with the eighth rank prizeless
C10_Witness ==
    /\ a_site = "clash" /\ IsSnapshot(a_out)
    /\ Len(RawClashItems) = 11
    /\ Len(a_out.users) = 10
    /\ a_out.users[1].wagered > a_out.users[10].wagered
    /\ RawClashItems[1].wagered < RawClashItems[11].wagered
    /\ a_out.users[8].prize = 0

(***************************************************************************)
(* Claims about the routes and the cache, checked under Spec and SpecAll.  *)
(***************************************************************************)
KnownIds == {"clash", "bsite", "csbattle", "skinfans"}

FreshDocs(p) ==
    {d \in cache : d.site_id = cur[p]
                   /\ now[p] - d.last_updated.iso < CACHE_DURATION_MINUTES}

\* C1: no upstream failure of any source surfaces as an exception from the
\* adapter or from resolve: the single-source GET of a known source always
\* answers 200 with a snapshot, and an error snapshot has users = [], a
\* message and the source's static prize_pool, currency and prizes.
C1_FailuresAbsorbed ==
    (sent.req.route = "get" /\ sent.req.site_id \in KnownIds) =>
        /\ sent.response.status_code = 200
        /\ LET b == sent.response.body
               c == API_CONFIG[sent.req.site_id]
           IN  b.status = "error" =>
                /\ b.users = <<>>
                /\ "message" \in DOMAIN b
                /\ b.prize_pool = c.prize_pool
                /\ b.currency = c.currency
                /\ b.prizes = c.prizes

\* C2: a resolve that finds a record of its source younger than five minutes
\* returns the stored snapshot with the record's last_updated, calls no
\* adapter and leaves the collection as it was.
C2_CacheHit ==
    [][\A p \in Slots :
        (env.MONGO_URL /\ pc[p] = "find" /\ pc'[p] # "find"
            /\ FreshDocs(p) # {}) =>
            /\ cache' = cache
            /\ sent'.calls = calls[p]
            /\ \E d \in FreshDocs(p) :
                LET out == IF req[p].route = "refresh"
                           THEN sent'.response.body.data
                           ELSE sent'.response.body
                IN  /\ out = d.data
                    /\ out.last_updated = d.last_updated]_vars

\* a GET answered from a record stamped before the request's own instant
C2_Witness ==
    /\ sent.req.route = "get"
    /\ sent.calls = 0
    /\ sent.response.status_code = 200
    /\ sent.response.body.last_updated.iso < sent.now

\* C3: a resolve that finds no record of its source younger than five minutes
\* leaves the collection as it was at the read, makes one adapter call,
\* stamps the result with its instant and overwrites the record with it.
C3_StaleIsMiss ==
    [][\A p \in Slots : env.MONGO_URL =>
        /\ (pc[p] = "find" /\ pc'[p] # "find" /\ FreshDocs(p) = {}) =>
                (pc'[p] = "fetch" /\ cache' = cache /\ calls'[p] = calls[p])
        /\ (pc[p] = "fetch" /\ pc'[p] # "fetch") =>
                /\ pc'[p] = "write"
                /\ calls'[p] = calls[p] + 1
                /\ data'[p].last_updated = isoformat(now[p])
        /\ (pc[p] = "write" /\ pc'[p] # "write") =>
                /\ sent'.calls = calls[p]
                /\ Matching(cache', cur[p]) =
                      {[site_id |-> cur[p], data |-> data[p],
                        last_updated |-> isoformat(now[p])]}]_vars

\* C4: a force_refresh of a known source makes an adapter call of its own and
\* answers with the snapshot that call fetched, stamped with its instant.
C4_RefreshFetchesLive ==
    (sent.req.route = "refresh" /\ sent.req.site_id \in KnownIds) =>
        /\ sent.calls = 1
        /\ sent.response.status_code = 200 =>
                sent.response.body.data.last_updated = isoformat(sent.now)

\* C5: a GET or a refresh POST for an id outside the four known ones is
\* answered 404 with the valid ids listed, in the step that accepts it: no
\* handler slot is taken, no adapter is called, the collection is unchanged.
C5_UnknownSite ==
    [][(sent' # sent /\ sent'.req.route \in {"get", "refresh"}
            /\ sent'.req.site_id \notin KnownIds) =>
        /\ pc' = pc
        /\ cache' = cache
        /\ sent'.calls = 0
        /\ sent'.response.status_code = 404
        /\ sent'.response.detail.sites =
                <<"clash", "bsite", "csbattle", "skinfans">>]_vars

\* a refresh of an unknown id refused while the collection holds a record
C5_Witness ==
    /\ sent.req.route = "refresh"
    /\ sent.req.site_id \notin KnownIds
    /\ sent.response.status_code = 404
    /\ cache # {}

\* C6: the aggregate route always answers 200 with exactly the four known ids
\* as keys; a source whose resolution raised has the record
\* {site_id, error, status: "error"} under its key, every other source its
\* snapshot.
C6_AllIsolated ==
    sent.req.route = "all" =>
        /\ sent.response.status_code = 200
        /\ DOMAIN sent.response.body = KnownIds
        /\ \A s \in KnownIds :
            LET e == sent.response.body[s] IN
            IF s \in sent.raised
            THEN /\ DOMAIN e = {"site_id", "error", "status"}
                 /\ e.site_id = s
                 /\ e.status = "error"
            ELSE /\ IsSnapshot(e)
                 /\ e.site_id = s
                 /\ "last_updated" \in DOMAIN e

\* one adapter raised: three snapshots and one error record
C6_Witness ==
    /\ sent.req.route = "all"
    /\ Cardinality(sent.raised) = 1
    /\ Cardinality({s \in KnownIds : IsSnapshot(sent.response.body[s])}) = 3

\* C7 as stated: the collection holds exactly one record for each source.
C7_ExactlyOneRecord ==
    env.MONGO_URL => \A s \in KnownIds : Cardinality(Matching(cache, s)) = 1

\* C7 amended: the collection never holds more than one record for a source.
C7_AtMostOneRecord ==
    \A s \in KnownIds : Cardinality(Matching(cache, s)) <= 1

\* a request whose write found a record of its source in place
C7_Witness ==
    /\ sent.overwrote
    /\ Cardinality(Matching(cache, sent.req.site_id)) = 1

(***************************************************************************)
(* Claims about the helper functions, checked under SpecHelpers.           *)
(***************************************************************************)
\* what the claim's mask of the string n with v visible characters is
MaskOf(n, v) ==
    IF Len(n) <= v THEN n ELSE SubSeq(n, 1, v) \o Stars(Min(Len(n) - v, 8))

\* C11 as stated: for every name and visible >= 0 the result is the name
\* itself when it is no longer than visible, and otherwise the name's first
\* visible characters followed by min(len(name) - visible, 8) asterisks.
C11_MaskOfName ==
    (m_out # NotCalled /\ "str" \in DOMAIN m_name) =>
        m_out.str = MaskOf(m_name.str, m_visible)

\* C11 amended: the same holds of the sanitized name, which has the name's
\* length and its characters with every unencodable one replaced by "?"; the
\* result has length min(len, visible + 8) and only asterisks after position
\* visible when the name is longer than visible.
C11_MaskOfSanitized ==
    m_out # NotCalled =>
        LET n == sanitize_username(m_name).str
            r == m_out.str
        IN  /\ "str" \in DOMAIN m_name =>
                /\ Len(n) = Len(m_name.str)
                /\ \A i \in 1..Len(n) :
                      IF m_name.str[i] = Surrogate THEN n[i] = "?"
                      ELSE n[i] = m_name.str[i]
            /\ r = MaskOf(n, m_visible)
            /\ Len(r) = Min(Len(n), m_visible + 8)
            /\ Len(n) > m_visible =>
                  \A i \in (m_visible + 1)..Len(r) : r[i] = "*"

\* a name with an unencodable visible character, long enough for the cap
C11_Witness ==
    /\ m_out # NotCalled
    /\ "str" \in DOMAIN m_name
    /\ m_visible = 2
    /\ Len(m_name.str) > m_visible + 8
    /\ m_name.str[1] = Surrogate
    /\ Len(m_out.str) = m_visible + 8

\* C14: for every current UTC instant the countdown_end of a successful clash
\* fetch is the last instant of the current UTC month, 23:59:59 on the
\* month's last day (December included).
C14_LastInstantOfMonth ==
    t_out # NotCalled =>
        t_out = [year |-> t_now.year, month |-> t_now.month,
                 day |-> DaysInMonth(t_now.year, t_now.month),
                 second |-> LastSecond]

(***************************************************************************)
(* Further claims about the routes and the cache, checked under Spec.      *)
(***************************************************************************)
\* the snapshot a get or refresh response carries
Delivered(response, route) ==
    IF route = "refresh" THEN response.body.data ELSE response.body

\* C12: with no store configured (db is None) no handler ever awaits a store
\* read, write or delete, and every GET or refresh of a known source makes
\* one adapter call and answers 200 with its snapshot stamped with the
\* request's instant.
C12_NoStoreStillServes ==
    ~env.MONGO_URL =>
        /\ cache = {}
        /\ \A p \in Slots : pc[p] \notin {"find", "write", "delete"}
        /\ (sent.req.route \in {"get", "refresh"}
                /\ sent.req.site_id \in KnownIds) =>
            /\ sent.calls = 1
            /\ sent.response.status_code = 200
            /\ Delivered(sent.response, sent.req.route).last_updated
                    = isoformat(sent.now)

(***************************************************************************)
(* Further claims about the adapters, checked under SpecAdapters.          *)
(***************************************************************************)
Statuses == {"active", "ended", "maintenance", "not_configured", "error"}

\* C13: the status of every snapshot an adapter returns is one of active,
\* ended, maintenance, not_configured, error, for every provider response.
C13_StatusInEnum ==
    IsSnapshot(a_out) => a_out.status \in Statuses

\* the provider response is a JSON object whose maintenance flag is set
BsiteInMaintenance ==
    /\ a_site = "bsite"
    /\ a_resp.transport = "ok"
    /\ a_resp.body.json = "object"
    /\ Get(a_resp.body.fields, "maintenance", FALSE)

\* C15: whenever the bsite response body has its maintenance flag set, the
\* adapter returns a snapshot with status maintenance, no users and the
\* provider's message or the default, whatever the HTTP status code and the
\* error flag are.
C15_MaintenanceFirst ==
    (BsiteInMaintenance /\ a_out # NotCalled) =>
        /\ IsSnapshot(a_out)
        /\ a_out.status = "maintenance"
        /\ a_out.users = <<>>
        /\ a_out.message =
              IF "msg" \in DOMAIN a_resp.body.fields
              THEN a_resp.body.fields.msg
              ELSE "B.site is currently under maintenance. Please check back later."

\* maintenance announced with a 500 status and the error flag set
C15_Witness ==
    /\ BsiteInMaintenance
    /\ a_resp.status_code = 500
    /\ Get(a_resp.body.fields, "error", FALSE)
    /\ IsSnapshot(a_out)
    /\ a_out.status = "maintenance"
    /\ a_out.message = "back soon"

(***************************************************************************)
(* Claims about concurrent requests and write-through, checked under Spec. *)
(***************************************************************************)
\* p and another request have both missed the cache for the same source
ConcurrentMiss(p) ==
    /\ env.MONGO_URL
    /\ pc[p] \in {"fetch", "write"}
    /\ \E q \in Slots \ {p} :
        cur[q] = cur[p] /\ pc[q] \in {"fetch", "write"}

\* C16: when requests resolve the same source concurrently and all miss, each
\* makes its own adapter call and gets its own snapshot without failing, and
\* every upsert leaves a single record for the source holding the writer's
\* snapshot and instant, so the record is that of the upsert applied last.
C16_LastWriteWins ==
    [][\A p \in Slots :
        /\ (ConcurrentMiss(p) /\ pc[p] = "fetch" /\ pc'[p] # "fetch") =>
                /\ pc'[p] = "write"
                /\ calls'[p] = calls[p] + 1
                /\ IsSnapshot(data'[p])
                /\ data'[p].last_updated = isoformat(now[p])
        /\ (pc[p] = "write" /\ pc'[p] # "write") =>
                /\ sent'.response.status_code = 200
                /\ Delivered(sent'.response, req[p].route) = data[p]
                /\ Matching(cache', cur[p]) =
                      {[site_id |-> cur[p], data |-> data[p],
                        last_updated |-> isoformat(now[p])]}]_vars

NonActive == {"error", "maintenance", "not_configured"}

\* C17: a snapshot with status error, maintenance or not_configured is
\* written to the cache like any other, and a later resolve that finds it
\* within the five minutes returns it with no new adapter call.
C17_WriteThroughAnyStatus ==
    [][\A p \in Slots :
        /\ (pc[p] = "write" /\ pc'[p] # "write"
                /\ data[p].status \in NonActive) =>
            Matching(cache', cur[p]) =
                {[site_id |-> cur[p], data |-> data[p],
                  last_updated |-> isoformat(now[p])]}
        /\ (env.MONGO_URL /\ pc[p] = "find" /\ pc'[p] # "find") =>
            \A d \in FreshDocs(p) : d.data.status \in NonActive =>
                /\ cache' = cache
                /\ sent'.calls = calls[p]
                /\ sent'.response.status_code = 200
                /\ Delivered(sent'.response, req[p].route) = d.data]_vars

\* a later GET answered from the cache with a stored non-active snapshot
C17_Witness ==
    /\ sent.req.route = "get"
    /\ sent.calls = 0
    /\ sent.response.status_code = 200
    /\ sent.response.body.status \in NonActive
    /\ sent.response.body.last_updated.iso < sent.now

\* C18: when the adapter call of a resolve raises, the request ends there
\* and the collection is left exactly as it was: no record of the source or
\* of any other source is written, replaced or removed.
C18_RaiseWritesNothing ==
    [][\A p \in Slots :
        (env.MONGO_URL /\ pc[p] = "fetch" /\ pc'[p] \notin {"fetch", "write"}) =>
            /\ cache' = cache
            /\ pc'[p] = "idle"
            /\ sent'.response.status_code # 200
            /\ ~sent'.overwrote]_vars

\* a GET that failed at the adapter while the source's stale record stays
C18_Witness ==
    /\ sent.req.route = "get"
    /\ sent.req.site_id \in KnownIds
    /\ sent.response.status_code = 500
    /\ \E d \in Matching(cache, sent.req.site_id) :
            sent.now - d.last_updated.iso >= CACHE_DURATION_MINUTES

\* C19 as stated: a cache write never replaces a record of its source with
\* one whose last_updated is earlier.
C19_LastUpdatedMonotonic ==
    [][\A p \in Slots :
        (pc[p] = "write" /\ pc'[p] # "write") =>
            \A d \in Matching(cache, cur[p]), e \in Matching(cache', cur[p]) :
                d.last_updated.iso <= e.last_updated.iso]_vars

\* C19 amended: a cache write leaves for its source the record stamped with
\* the instant the writer captured when its resolve began, which is never
\* later than the instant of the write (and may be earlier than the stamp of
\* the record it replaces).
C19_StampedAtStart ==
    [][\A p \in Slots :
        (pc[p] = "write" /\ pc'[p] # "write") =>
            /\ now[p] <= clock
            /\ \A e \in Matching(cache', cur[p]) :
                /\ e.last_updated = isoformat(now[p])
                /\ e.data.last_updated = isoformat(now[p])]_vars

\* a write that replaced a record stamped later than its own instant
C19_Witness ==
    /\ \E t \in sent.replaced : t.iso > sent.now
    /\ \A d \in Matching(cache, sent.req.site_id) :
            d.last_updated = isoformat(sent.now)
    /\ Matching(cache, sent.req.site_id) # {}

====
